---------------------------- MODULE Spec2Model ----------------------------
(***************************************************************************)
(* A model of tools/cli/helpers/util.js: the export-file patcher           *)
(* (updateFileWithExports, deleteFromFileWithExports, runPrettier), the    *)
(* template materializer (copyFiles, renameFiles), the path resolver       *)
(* (computeModulesPath) and the field-type mapper (generateField).         *)
(*                                                                         *)
(* Texts are TLA+ strings; TLC evaluates Len, SubSeq and \o on them, so a  *)
(* file content is the character sequence the JavaScript code sees.        *)
(***************************************************************************)
EXTENDS Integers, Sequences, FiniteSets, TLC

VARIABLES
    exists,     \* patcher: fs.existsSync(pathToFileWithExports)
    content,    \* patcher: the text of the export file ("" while absent)
    log,        \* patcher: the call just made (none at the start)
    template,   \* materializer: the template tree, name -> content
    tree,       \* materializer: the destination tree, name -> content
    moduleName, \* materializer: the module name of this run
    runs,       \* materializer: how many times renameFiles has run
    names1,     \* materializer: the file names after the first renameFiles
    call,       \* resolver / mapper: the arguments of the call
    result      \* resolver / mapper: <<the returned string>>, <<>> before the return

vars == <<exists, content, log, template, tree, moduleName, runs, names1, call, result>>

patcherVars == <<exists, content, log>>
treeVars == <<template, tree, moduleName, runs, names1>>
callVars == <<call, result>>

-----------------------------------------------------------------------------
(* JavaScript string primitives *)

\* s.charAt(i - 1): the character at the 1-based position i, "" outside the string
At(s, i) == IF i >= 1 /\ i <= Len(s) THEN SubSeq(s, i, i) ELSE ""

Min(S) == CHOOSE x \in S : \A y \in S : x <= y
Max(S) == CHOOSE x \in S : \A y \in S : x >= y

\* s.startsWith(p, i - 1): p occurs in s at the 1-based position i
OccursAt(s, i, p) == i >= 1 /\ i + Len(p) - 1 <= Len(s) /\ SubSeq(s, i, i + Len(p) - 1) = p

\* s.includes(p)
Contains(s, p) == \E i \in 1..Len(s) : OccursAt(s, i, p)

\* the first 1-based position >= i where p occurs, 0 when there is none
IndexFrom(s, i, p) ==
    LET hits == {j \in i..Len(s) : OccursAt(s, j, p)}
    IN  IF hits = {} THEN 0 ELSE Min(hits)

\* \s of a JavaScript regular expression
IsSpace(c) == c \in {" ", "\n", "\t", "\r"}

\* . of a JavaScript regular expression: any character but a line terminator
IsDot(c) == Len(c) = 1 /\ c \notin {"\n", "\r"}

\* String.prototype.trim
Trim(s) ==
    LET keep == {i \in 1..Len(s) : ~IsSpace(At(s, i))}
    IN  IF keep = {} THEN "" ELSE SubSeq(s, Min(keep), Max(keep))

\* String.prototype.lastIndexOf, 0-based, -1 when p does not occur
LastIndexOf(s, p) ==
    LET hits == {i \in 0..(Len(s) - Len(p)) : OccursAt(s, i + 1, p)}
    IN  IF hits = {} THEN -1 ELSE Max(hits)

\* String.prototype.slice(from, to) with 0-based, clamped, non-negative bounds
Slice(s, from, to) ==
    LET a == IF from > Len(s) THEN Len(s) ELSE from
        b == IF to > Len(s) THEN Len(s) ELSE to
    IN  IF a >= b THEN "" ELSE SubSeq(s, a + 1, b)

\* s.split(sep) for a one-character separator
RECURSIVE Split(_, _)
Split(s, sep) ==
    LET k == IndexFrom(s, 1, sep)
    IN  IF k = 0 THEN <<s>> ELSE <<SubSeq(s, 1, k - 1)>> \o Split(SubSeq(s, k + 1, Len(s)), sep)

\* list.join(sep)
RECURSIVE Join(_, _)
Join(list, sep) ==
    IF list = <<>> THEN ""
    ELSE IF Len(list) = 1 THEN list[1]
    ELSE list[1] \o sep \o Join(Tail(list), sep)


-----------------------------------------------------------------------------
(* Token renderer: humps.pascalize, humps.decamelize, lodash.startCase and    *)
(* String.prototype.toUpperCase, as renameFiles calls them                     *)

LowerCase == "abcdefghijklmnopqrstuvwxyz"
UpperCase == "ABCDEFGHIJKLMNOPQRSTUVWXYZ"
Digits == "0123456789"

IsIn(c, class) == Len(c) = 1 /\ Contains(class, c)
IsUpper(c) == IsIn(c, UpperCase)
IsLower(c) == IsIn(c, LowerCase)
IsDigit(c) == IsIn(c, Digits)

ToUpperChar(c) == IF IsLower(c) THEN At(UpperCase, IndexFrom(LowerCase, 1, c)) ELSE c
ToLowerChar(c) == IF IsUpper(c) THEN At(LowerCase, IndexFrom(UpperCase, 1, c)) ELSE c

RECURSIVE ToUpperCase(_)
ToUpperCase(s) ==
    IF s = "" THEN "" ELSE ToUpperChar(At(s, 1)) \o ToUpperCase(SubSeq(s, 2, Len(s)))

RECURSIVE ToLowerCase(_)
ToLowerCase(s) ==
    IF s = "" THEN "" ELSE ToLowerChar(At(s, 1)) \o ToLowerCase(SubSeq(s, 2, Len(s)))

\* humps _isNumerical, for the names modelled: a string of digits converts to a number
IsNumerical(s) == \A i \in 1..Len(s) : IsDigit(At(s, i))

\* [\-_\s] of humps.camelize
IsSeparator(c) == c \in {"-", "_"} \/ IsSpace(c)

\* s.slice(i - 1).replace(/[\-_\s]+(.)?/g, (match, chr) => chr ? chr.toUpperCase() : '')
RECURSIVE CamelizeFrom(_, _)
CamelizeFrom(s, i) ==
    IF i > Len(s) THEN ""
    ELSE IF IsSeparator(At(s, i)) THEN
        LET stops == {j \in i..Len(s) : ~IsSeparator(At(s, j))}
            next == IF stops = {} THEN Len(s) + 1 ELSE Min(stops)
        IN  IF IsDot(At(s, next))
            THEN ToUpperChar(At(s, next)) \o CamelizeFrom(s, next + 1)
            ELSE CamelizeFrom(s, next)
    ELSE At(s, i) \o CamelizeFrom(s, i + 1)

\* humps.camelize
Camelize(s) ==
    IF IsNumerical(s) THEN s
    ELSE LET c == CamelizeFrom(s, 1) IN ToLowerChar(At(c, 1)) \o SubSeq(c, 2, Len(c))

\* humps.pascalize
Pascalize(s) ==
    LET camelized == Camelize(s)
    IN  ToUpperChar(At(camelized, 1)) \o SubSeq(camelized, 2, Len(camelized))

\* s.slice(i - 1).split(/(?=[A-Z])/).join(separator): a separator goes before every
\* capital letter but the first character of the string
RECURSIVE SeparateWords(_, _, _)
SeparateWords(s, i, separator) ==
    IF i > Len(s) THEN ""
    ELSE (IF i > 1 /\ IsUpper(At(s, i)) THEN separator ELSE "")
             \o At(s, i) \o SeparateWords(s, i + 1, separator)

\* humps.decamelize(s, { separator })
Decamelize(s, separator) == ToLowerCase(SeparateWords(s, 1, separator))

\* the length of the word lodash's words() finds at position i of s, where a word
\* starts: a run of digits, a run of small letters, a capital with its small
\* letters, or a run of capitals (less the last one when a small letter follows)
WordLength(s, i) ==
    LET runEnd(from, Class(_)) ==
            LET stops == {j \in from..Len(s) : ~Class(At(s, j))}
            IN  IF stops = {} THEN Len(s) ELSE Min(stops) - 1
        uppers == runEnd(i, IsUpper)
        lowers == runEnd(uppers + 1, IsLower)
    IN  IF IsDigit(At(s, i)) THEN runEnd(i, IsDigit) - i + 1
        ELSE IF IsLower(At(s, i)) THEN runEnd(i, IsLower) - i + 1
        ELSE IF uppers = i THEN lowers - i + 1
        ELSE IF lowers > uppers THEN uppers - i
        ELSE uppers - i + 1

\* lodash words(s.slice(i - 1)): every character that is no letter and no digit
\* separates words
RECURSIVE Words(_, _)
Words(s, i) ==
    IF i > Len(s) THEN <<>>
    ELSE IF ~(IsUpper(At(s, i)) \/ IsLower(At(s, i)) \/ IsDigit(At(s, i))) THEN Words(s, i + 1)
    ELSE <<SubSeq(s, i, i + WordLength(s, i) - 1)>> \o Words(s, i + WordLength(s, i))

\* lodash upperFirst
UpperFirst(w) == ToUpperChar(At(w, 1)) \o SubSeq(w, 2, Len(w))

\* lodash startCase
StartCase(s) ==
    LET words == Words(s, 1)
        Build[k \in 0..Len(words)] ==
            IF k = 0 THEN ""
            ELSE Build[k - 1] \o (IF k > 1 THEN " " ELSE "") \o UpperFirst(words[k])
    IN  Build[Len(words)]

-----------------------------------------------------------------------------
(* Template materializer: copyFiles and renameFiles.  A tree is a set of files *)
(* [name, content] with distinct names.                                        *)

FileNamesOf(t) == {f.name : f \in t}

ContentOf(t, name) == (CHOOSE f \in t : f.name = name).content

\* String.prototype.replace with a string pattern: only the first occurrence
ReplaceFirst(s, pattern, replacement) ==
    LET at == IndexFrom(s, 1, pattern)
    IN  IF at = 0 THEN s
        ELSE SubSeq(s, 1, at - 1) \o replacement \o SubSeq(s, at + Len(pattern), Len(s))

\* a move that removes dest before it looks at source: a file moved onto itself is lost
MvRemovingDestFirst(t, source, dest) ==
    IF source \notin FileNamesOf(t) THEN t
    ELSE {f \in t : f.name \notin {source, dest}}
             \cup (IF source = dest THEN {} ELSE {[name |-> dest, content |-> ContentOf(t, source)]})

\* shell.mv(source, dest): dest is overwritten; moving a file onto itself, or a
\* file that is gone, is an error shelljs reports and the walk goes on
Mv(t, source, dest) ==
    IF source \notin FileNamesOf(t) \/ source = dest THEN t
    ELSE {f \in t : f.name \notin {source, dest}}
             \cup {[name |-> dest, content |-> ContentOf(t, source)]}

\* the first walk of renameFiles over the listing `order` of shell.ls
RECURSIVE RenamePass(_, _, _)
RenamePass(t, order, Module) ==
    IF order = <<>> THEN t
    ELSE RenamePass(Mv(t, order[1], ReplaceFirst(order[1], "Module", Module)), Tail(order), Module)

\* the replacement string of String.prototype.replace, expanded for one match:
\* $$ is $ and $& is the match (no module name modelled holds another pattern)
RECURSIVE Expand(_, _, _)
Expand(replacement, i, match) ==
    IF i > Len(replacement) THEN ""
    ELSE IF At(replacement, i) = "$" /\ At(replacement, i + 1) \in {"$", "&"} THEN
        (IF At(replacement, i + 1) = "$" THEN "$" ELSE match) \o Expand(replacement, i + 2, match)
    ELSE At(replacement, i) \o Expand(replacement, i + 1, match)

\* line.slice(i - 1) of line.replace(/token/g, replacement), token a literal text
RECURSIVE ReplaceToken(_, _, _, _)
ReplaceToken(line, i, token, replacement) ==
    LET at == IndexFrom(line, i, token)
    IN  IF at = 0 THEN SubSeq(line, i, Len(line))
        ELSE SubSeq(line, i, at - 1) \o Expand(replacement, 1, token)
                 \o ReplaceToken(line, at + Len(token), token, replacement)

\* a sed whose pattern lacks the g flag: the first match of each line only
SedFirstMatch(text, token, replacement) ==
    LET lines == Split(text, "\n")
    IN  Join([k \in 1..Len(lines) |-> ReplaceFirst(lines[k], token, Expand(replacement, 1, token))],
             "\n")

\* shell.sed('-i', /token/g, replacement, file): the replacement runs line by line
Sed(text, token, replacement) ==
    LET lines == Split(text, "\n")
    IN  Join([k \in 1..Len(lines) |-> ReplaceToken(lines[k], 1, token, replacement)], "\n")

\* the placeholder tokens, in the order renameFiles replaces them
Tokens == <<"$module$", "$_module$", "$-module$", "$Module$", "$MoDuLe$", "$MODULE$">>

\* what renameFiles puts for each token
Rendered(name) ==
    << name, Decamelize(name, "_"), Decamelize(name, "-"), Pascalize(name),
       StartCase(name), ToUpperCase(name) >>

\* the six shell.sed calls on one file, one after the other, from the k-th on
RECURSIVE SubstituteFrom(_, _, _)
SubstituteFrom(text, k, rendered) ==
    IF k > Len(Tokens) THEN text
    ELSE SubstituteFrom(Sed(text, Tokens[k], rendered[k]), k + 1, rendered)

\* the second walk of renameFiles
SubstitutePass(t, name) ==
    LET rendered == Rendered(name)
    IN  {[name |-> f.name, content |-> SubstituteFrom(f.content, 1, rendered)] : f \in t}

\* renameFiles(destinationPath, moduleName), for one listing order of the first walk
renameFiles(t, order, name) == SubstitutePass(RenamePass(t, order, Pascalize(name)), name)

\* copyFiles: shell.cp -R of the template files into the destination
copyFiles(t, templateFiles) ==
    {f \in t : f.name \notin FileNamesOf(templateFiles)} \cup templateFiles

-----------------------------------------------------------------------------
(* Path resolver: computeModulesPath *)

\* BASE_PATH of ../config, the root of the repository checkout
BASE_PATH == "/app"

\* location.split('-')[0]
LeadingSegment(location) == Split(location, "-")[1]

\* computeModulesPath without the test for an empty name at a server location
computeModulesPathOldOnly(location, options, name) ==
    IF "old" \in options
    THEN BASE_PATH \o "/packages/" \o LeadingSegment(location) \o "/src/modules/" \o name
    ELSE IF name = ""
    THEN BASE_PATH \o "/packages/" \o LeadingSegment(location) \o "/src/"
    ELSE BASE_PATH \o "/modules/" \o name \o "/" \o location

\* options is the set of the flags that are set: options.old is truthy when it
\* holds "old", and undefined for {}
computeModulesPath(location, options, name) ==
    IF "old" \in options \/ (name = "" /\ LeadingSegment(location) = "server")
    THEN BASE_PATH \o "/packages/" \o LeadingSegment(location) \o "/src/modules/" \o name
    ELSE IF name = ""
    THEN BASE_PATH \o "/packages/" \o LeadingSegment(location) \o "/src/"
    ELSE BASE_PATH \o "/modules/" \o name \o "/" \o location

-----------------------------------------------------------------------------
(* Field-type mapper: generateField.  A type is a class; Extends gives the     *)
(* class it extends, "" for a class that extends none.                         *)

\* the kinds generateField tests for, in the order of its if chain
FieldKinds == <<"Boolean", "ID", "Int", "Float", "String", "Date", "DateTime", "Time">>

\* the classes a schema field is declared with: the kinds, classes derived from
\* them, and classes generateField knows nothing of
Extends ==
    [ Boolean |-> "", ID |-> "", Int |-> "", Float |-> "", String |-> "", Date |-> "",
      DateTime |-> "", Time |-> "",
      Email |-> "String", Uuid |-> "ID", Money |-> "Float", Price |-> "Money",
      Timestamp |-> "DateTime",
      Number |-> "", Array |-> "", Object |-> "", Decimal |-> "Number" ]

Classes == DOMAIN Extends

\* the classes on the prototype chain of class.prototype, class itself excluded
RECURSIVE SuperClasses(_)
SuperClasses(class) ==
    IF Extends[class] = "" THEN {} ELSE {Extends[class]} \cup SuperClasses(Extends[class])

\* value.type === targetType || value.type.prototype instanceof targetType
hasTypeOf(value, targetType) ==
    value.type = targetType \/ targetType \in SuperClasses(value.type)

\* the first kind of the if chain that value has, "" when it has none
TypeName(value) ==
    LET hits == {k \in 1..Len(FieldKinds) : hasTypeOf(value, FieldKinds[k])}
    IN  IF hits = {} THEN "" ELSE FieldKinds[Min(hits)]

\* generateField with the non-null marker put only after a type name
generateFieldMarkerAfterName(value, update) ==
    IF TypeName(value) = "" THEN ""
    ELSE TypeName(value) \o (IF ~update /\ ~value.optional THEN "!" ELSE "")

generateField(value, update) ==
    TypeName(value) \o (IF ~update /\ ~value.optional THEN "!" ELSE "")

-----------------------------------------------------------------------------
(* Export-file patcher: updateFileWithExports *)

\* `\nexport default {\n  ${exportName}\n};\n`
ExportGraphqlContainer(exportName) == "\nexport default {\n  " \o exportName \o "\n};\n"

\* the length of the match of /(,|)\s};/ that starts at position i, 0 when none
CloseMatch(s, i) ==
    IF At(s, i) = "," /\ IsSpace(At(s, i + 1)) /\ OccursAt(s, i + 2, "};") THEN 4
    ELSE IF IsSpace(At(s, i)) /\ OccursAt(s, i + 1, "};") THEN 3
    ELSE 0

\* s.slice(i - 1).replace(/(,|)\s};/g, repl)
RECURSIVE ReplaceClose(_, _, _)
ReplaceClose(s, i, repl) ==
    LET hits == {j \in i..Len(s) : CloseMatch(s, j) > 0}
        at == Min(hits)
    IN  IF hits = {} THEN SubSeq(s, i, Len(s))
        ELSE SubSeq(s, i, at - 1) \o repl \o ReplaceClose(s, at + CloseMatch(s, at), repl)

\* what updateFileWithExports writes to a file that exists and holds text
WriteExports(text, exportName, importString) ==
    LET generatedContainer == Trim(text)
        index == LastIndexOf(generatedContainer, "';")
        computedIndex == IF index >= 0 THEN index + 3 ELSE 0
        computedGeneratedContainer ==
            Slice(generatedContainer, 0, computedIndex) \o importString
                \o Slice(generatedContainer, computedIndex, Len(generatedContainer))
    IN  IF Len(generatedContainer) > 1 /\ computedIndex # 0
        THEN ReplaceClose(computedGeneratedContainer, 1, ",\n  " \o exportName \o "\n};")
        ELSE importString \o ExportGraphqlContainer(exportName)

\* updateFileWithExports without its fs.existsSync test: an absent file is written
updateFileWithExportsUnguarded(file, exportName, importString) ==
    [exists |-> TRUE, content |-> WriteExports(file.content, exportName, importString)]

\* updateFileWithExports on a file: nothing happens unless fs.existsSync(path)
updateFileWithExports(file, exportName, importString) ==
    IF file.exists
    THEN [exists |-> TRUE, content |-> WriteExports(file.content, exportName, importString)]
    ELSE file

-----------------------------------------------------------------------------
(* Export-file patcher: deleteFromFileWithExports *)

\* the last position of the run of . characters that starts at p (p - 1 when empty)
DotRunEnd(s, p) ==
    LET stops == {j \in p..Len(s) : ~IsDot(At(s, j))}
    IN  IF stops = {} THEN Len(s) ELSE Min(stops) - 1

\* the number of consecutive \n characters from position p on
NewlineRun(s, p) ==
    LET stops == {j \in p..Len(s) : At(s, j) # "\n"}
    IN  (IF stops = {} THEN Len(s) + 1 ELSE Min(stops)) - p

\* the match of head.+;\n+(?!ex) at i: .+ stays on one line and ; must be
\* followed by \n, so ; is the last character of the line; \n+ takes the whole
\* run of newlines, and gives one back when "ex" follows the run
ImportLineMatch(s, i, head) ==
    LET p == i + Len(head)
        e == DotRunEnd(s, p)
        m == NewlineRun(s, e + 1)
        j == IF OccursAt(s, e + 1 + m, "ex") THEN m - 1 ELSE m
    IN  IF OccursAt(s, i, head) /\ e >= p + 1 /\ At(s, e) = ";" /\ j >= 1
        THEN e + j - i + 1
        ELSE 0

\* the match of import (N|{ N }).+;\n+(?!ex) at i
ImportMatch(s, i, exportName) ==
    LET plain == ImportLineMatch(s, i, "import " \o exportName)
        braces == ImportLineMatch(s, i, "import { " \o exportName \o " }")
    IN  IF plain > 0 THEN plain ELSE braces

\* the match of \n\s\sN(.|) at i
KeyMatch(s, i, exportName) ==
    IF At(s, i) = "\n" /\ IsSpace(At(s, i + 1)) /\ IsSpace(At(s, i + 2))
           /\ OccursAt(s, i + 3, exportName)
    THEN 3 + Len(exportName) + (IF IsDot(At(s, i + 3 + Len(exportName))) THEN 1 ELSE 0)
    ELSE 0

\* the length of the match of reg at i, 0 when none
RegMatch(s, i, exportName) ==
    LET key == KeyMatch(s, i, exportName)
    IN  IF key > 0 THEN key ELSE ImportMatch(s, i, exportName)

\* s.slice(i - 1).replace(new RegExp(reg, 'g'), '')
RECURSIVE RemoveMatches(_, _, _)
RemoveMatches(s, i, exportName) ==
    LET hits == {j \in i..Len(s) : RegMatch(s, j, exportName) > 0}
        at == Min(hits)
    IN  IF hits = {} THEN SubSeq(s, i, Len(s))
        ELSE SubSeq(s, i, at - 1) \o RemoveMatches(s, at + RegMatch(s, at, exportName), exportName)

\* generatedElement, the text deleteFromFileWithExports writes before prettier runs
GeneratedElement(text, exportName) == RemoveMatches(text, 1, exportName)

-----------------------------------------------------------------------------
(* Export-file patcher: runPrettier.  prettier is an external program; it is  *)
(* modelled for the statements an export file holds (one-line imports and one *)
(* default-export object of shorthand keys).  Any other text it cannot parse, *)
(* and then it leaves the file as it is.                                       *)

\* --print-width 120
PrintWidth == 120

IdentChars == "abcdefghijklmnopqrstuvwxyzABCDEFGHIJKLMNOPQRSTUVWXYZ0123456789_$"
IdentCharSet == {At(IdentChars, i) : i \in 1..Len(IdentChars)}

IsIdent(w) == Len(w) > 0 /\ \A i \in 1..Len(w) : At(w, i) \in IdentCharSet

\* the first position >= i that holds no white space, Len(s) + 1 when none
SkipSpace(s, i) ==
    LET stops == {j \in i..Len(s) : ~IsSpace(At(s, j))}
    IN  IF stops = {} THEN Len(s) + 1 ELSE Min(stops)

\* the number of \n among the positions a..b-1
NewlinesIn(s, a, b) == Cardinality({j \in a..(b - 1) : At(s, j) = "\n"})

\* the elements of list that are not ""
RECURSIVE NonEmpty(_)
NonEmpty(list) ==
    IF list = <<>> THEN <<>>
    ELSE (IF list[1] = "" THEN <<>> ELSE <<list[1]>>) \o NonEmpty(Tail(list))

\* the comma-separated elements of an object body, trimmed
ObjectElements(body) ==
    LET parts == Split(body, ",") IN [i \in 1..Len(parts) |-> Trim(parts[i])]

\* an object body prettier can parse: shorthand keys, with at most a trailing comma
ObjectParses(body) ==
    LET elems == ObjectElements(body)
    IN  \/ Trim(body) = ""
        \/ /\ \A i \in 1..(Len(elems) - 1) : IsIdent(elems[i])
           /\ elems[Len(elems)] = "" \/ IsIdent(elems[Len(elems)])
           /\ IsIdent(elems[1])

\* prettier's rendering of `export default { keys };`: an object stays broken over
\* lines when the source had a newline between { and the first key, or when it
\* does not fit the print width
FormatExport(keys, expanded) ==
    LET oneLine == "export default { " \o Join(keys, ", ") \o " };"
    IN  IF keys = <<>> THEN "export default {};"
        ELSE IF ~expanded /\ Len(oneLine) <= PrintWidth THEN oneLine
        ELSE "export default {\n"
                 \o Join([i \in 1..Len(keys) |-> "  " \o keys[i]], ",\n") \o "\n};"

ExportHead == "export default {"

\* the statements of s from position i on, formatted; ok is FALSE when the text
\* does not parse.  A blank line between two statements is kept as one blank line.
RECURSIVE FormatFrom(_, _, _)
FormatFrom(s, i, first) ==
    LET p == SkipSpace(s, i)
        gap == IF ~first /\ NewlinesIn(s, i, p) >= 2 THEN "\n" ELSE ""
    IN  IF p > Len(s) THEN [ok |-> TRUE, out |-> ""]
        ELSE IF OccursAt(s, p, "import ") THEN
            LET semi == IndexFrom(s, p, ";")
                rest == FormatFrom(s, semi + 1, FALSE)
            IN  IF semi = 0 \/ semi > DotRunEnd(s, p) THEN [ok |-> FALSE, out |-> ""]
                ELSE [ok |-> rest.ok, out |-> gap \o SubSeq(s, p, semi) \o "\n" \o rest.out]
        ELSE IF OccursAt(s, p, ExportHead) THEN
            LET open == p + Len(ExportHead)
                close == IndexFrom(s, open, "}")
                body == SubSeq(s, open, close - 1)
                after == IF At(s, close + 1) = ";" THEN close + 2 ELSE close + 1
                rest == FormatFrom(s, after, FALSE)
                expanded == NewlinesIn(s, open, SkipSpace(s, open)) >= 1
            IN  IF close = 0 \/ ~ObjectParses(body) THEN [ok |-> FALSE, out |-> ""]
                ELSE [ok |-> rest.ok,
                      out |-> gap \o FormatExport(NonEmpty(ObjectElements(body)), expanded)
                                  \o "\n" \o rest.out]
        ELSE [ok |-> FALSE, out |-> ""]

\* the file after `prettier --write` ran on it
Prettier(text) ==
    LET formatted == FormatFrom(text, 1, TRUE)
    IN  IF formatted.ok THEN formatted.out ELSE text

\* runPrettier: shell.exec runs the prettier found on the PATH, and reports no
\* failure; without one the file stays as deleteFromFileWithExports wrote it
RunPrettier(text) == {text, Prettier(text)}

-----------------------------------------------------------------------------
(* What an export file holds *)

\* the keys of the export block, in order
ExportKeys(text) ==
    LET at == IndexFrom(text, 1, ExportHead)
        open == at + Len(ExportHead)
        close == IndexFrom(text, open, "}")
        body == SubSeq(text, open, IF close = 0 THEN Len(text) ELSE close - 1)
    IN  IF at = 0 THEN <<>> ELSE NonEmpty(ObjectElements(body))

\* the positions where an import statement starts (at the start of a line)
ImportStarts(text) ==
    {i \in 1..Len(text) : OccursAt(text, i, "import ") /\ (i = 1 \/ At(text, i - 1) = "\n")}

\* the name an import statement at position i binds: import N ... or import { N } ...
ImportedAt(text, i) ==
    LET from == IF OccursAt(text, i + 7, "{ ") THEN i + 9 ELSE i + 7
        to == IndexFrom(text, from, " ")
    IN  SubSeq(text, from, IF to = 0 THEN Len(text) ELSE to - 1)

\* the import statement that starts at position i, with its line end
ImportLineAt(text, i) == SubSeq(text, i, DotRunEnd(text, i))

ImportedNames(text) == {ImportedAt(text, i) : i \in ImportStarts(text)}

KeySet(text) == {ExportKeys(text)[k] : k \in 1..Len(ExportKeys(text))}

-----------------------------------------------------------------------------
(* Export-file patcher: the file and the calls made on it *)

\* deleteFromFileWithExports on a file: the files it can leave, one per outcome
\* of runPrettier; nothing happens unless fs.existsSync(path)
deleteFromFileWithExports(file, exportName) ==
    IF file.exists
    THEN {[exists |-> TRUE, content |-> c] : c \in RunPrettier(GeneratedElement(file.content, exportName))}
    ELSE {file}

\* the export names the generator is called with; Foo is a prefix of FooBar
ExportNames == {"Foo", "FooBar", "Baz"}

\* the import statements the generator passes for a name
ImportStrings(exportName) ==
    { "import " \o exportName \o " from './" \o exportName \o "';\n",
      "import { " \o exportName \o " } from './" \o exportName \o "';\n" }

\* the most entries a modelled export file holds
MaxEntries == 2

\* the export files a run starts from: an empty file (as the templates ship it), a
\* well-formed file with one entry, and a hand-kept file whose import has no key yet
InitialFiles ==
    { "",
      "import Baz from './Baz';\n\nexport default {\n  Baz\n};\n",
      "import Baz from './Baz';\n\nexport default {\n};\n" }

File == [exists |-> exists, content |-> content]

\* the text a removeEntry undoes: the file before the call just made, when that
\* call was addEntry with the same name
Undone(exportName) ==
    IF log # <<>> /\ log[1].op = "add" /\ log[1].name = exportName
    THEN <<log[1].before>>
    ELSE <<>>

IdleTree ==
    /\ template = {} /\ tree = {} /\ moduleName = "" /\ runs = 0 /\ names1 = {}

IdleCall == call = <<>> /\ result = <<>>

InitPatcher ==
    /\ \/ exists = FALSE /\ content = ""
       \/ exists = TRUE /\ content \in InitialFiles
    /\ log = <<>>
    /\ IdleTree
    /\ IdleCall

AddEntry ==
    \E exportName \in ExportNames :
      \E importString \in ImportStrings(exportName) :
        LET after == updateFileWithExports(File, exportName, importString)
        IN  /\ Len(ExportKeys(content)) < MaxEntries
            /\ Cardinality(ImportStarts(content)) < MaxEntries
            /\ exists' = after.exists
            /\ content' = after.content
            /\ log' = <<[op |-> "add", name |-> exportName, import |-> importString,
                         existed |-> exists, before |-> content, undoes |-> <<>>]>>
            /\ UNCHANGED <<treeVars, callVars>>

RemoveEntry ==
    \E exportName \in ExportNames :
      \E after \in deleteFromFileWithExports(File, exportName) :
        /\ exists' = after.exists
        /\ content' = after.content
        /\ log' = <<[op |-> "remove", name |-> exportName, import |-> "",
                     existed |-> exists, before |-> content, undoes |-> Undone(exportName)]>>
        /\ UNCHANGED <<treeVars, callVars>>

NextPatcher == AddEntry \/ RemoveEntry

Spec == InitPatcher /\ [][NextPatcher]_vars

-----------------------------------------------------------------------------
(* Claims about the export-file patcher *)

LastOp == IF log = <<>> THEN "none" ELSE log[1].op

\* the import statements of a text, in file order
ImportList(text) ==
    LET starts == ImportStarts(text)
        nth(k) == CHOOSE i \in starts : Cardinality({j \in starts : j < i}) = k - 1
    IN  [k \in 1..Cardinality(starts) |-> ImportLineAt(text, nth(k))]

\* the import statements of a text that bind a name other than exportName
RECURSIVE OtherImports(_, _, _)
OtherImports(text, starts, exportName) ==
    IF starts = {} THEN <<>>
    ELSE LET i == Min(starts)
         IN  (IF ImportedAt(text, i) = exportName THEN <<>> ELSE <<ImportLineAt(text, i)>>)
                 \o OtherImports(text, starts \ {i}, exportName)

\* the keys of a list other than exportName
RECURSIVE OtherKeys(_, _)
OtherKeys(keys, exportName) ==
    IF keys = <<>> THEN <<>>
    ELSE (IF keys[1] = exportName THEN <<>> ELSE <<keys[1]>>) \o OtherKeys(Tail(keys), exportName)

\* the text between the braces of the export block
ExportBody(text) ==
    LET at == IndexFrom(text, 1, ExportHead)
        open == at + Len(ExportHead)
        close == IndexFrom(text, open, "}")
    IN  IF at = 0 \/ close = 0 THEN "" ELSE SubSeq(text, open, close - 1)

\* a present file with a '; import terminator before its export block
WellFormed(text) ==
    /\ Contains(text, ExportHead)
    /\ LastIndexOf(text, "';") >= 0
    /\ LastIndexOf(text, "';") < IndexFrom(text, 1, ExportHead)

\* C1: every key of the export block has an import statement for the same name
C1_KeysAreImported == KeySet(content) \subseteq ImportedNames(content)

\* C2: the export block never holds the same key twice
C2_NoDuplicateKeys == Cardinality(KeySet(content)) = Len(ExportKeys(content))

\* C3 as stated: addEntry on an absent file creates it, holding importString and a
\* default-export block whose only key is exportName
C3_AddCreatesAbsentFile ==
    (LastOp = "add" /\ ~log[1].existed) =>
        /\ exists
        /\ content = log[1].import \o ExportGraphqlContainer(log[1].name)

\* C3 amended: addEntry on an absent file creates nothing; on a present file whose
\* trimmed text is at most one character it writes importString followed by a
\* default-export block whose only key is exportName
C3_AddWritesOnlyPresentFile ==
    /\ (LastOp = "add" /\ ~log[1].existed) => (~exists /\ content = log[1].before)
    /\ (LastOp = "add" /\ log[1].existed /\ Len(Trim(log[1].before)) <= 1) =>
           /\ exists
           /\ content = log[1].import \o ExportGraphqlContainer(log[1].name)
           /\ ExportKeys(content) = <<log[1].name>>

\* C3 witness: addEntry was called while the export file did not exist
C3_AddOnAbsentFile == LastOp = "add" /\ ~log[1].existed

\* C4: addEntry then removeEntry with the same name leaves the name in neither the
\* imports nor the keys, and the key set as it was before the add
C4_RoundTrip ==
    (LastOp = "remove" /\ log[1].undoes # <<>>) =>
        /\ log[1].name \notin ImportedNames(content)
        /\ log[1].name \notin KeySet(content)
        /\ KeySet(content) = KeySet(log[1].undoes[1])

\* C5: addEntry on a present, well-formed file keeps the imports and the keys in
\* order, puts importString right after the last import, and appends exportName as
\* the last key, after a comma unless the object was empty
C5_AddAppends ==
    (LastOp = "add" /\ log[1].existed /\ WellFormed(log[1].before)) =>
        LET before == log[1].before
            statement == SubSeq(log[1].import, 1, Len(log[1].import) - 1)
            imports == ImportList(before)
        IN  /\ ImportList(content) = imports \o <<statement>>
            /\ Contains(content, imports[Len(imports)] \o "\n" \o log[1].import)
            /\ ExportKeys(content) = ExportKeys(before) \o <<log[1].name>>
            /\ ExportKeys(before) = <<>> => ~Contains(ExportBody(content), ",")

\* C10: removeEntry changes only the entry named exportName: every other import
\* statement and every other key stays as it was
C10_RemoveFrame ==
    (LastOp = "remove" /\ log[1].existed) =>
        /\ OtherImports(content, ImportStarts(content), log[1].name)
               = OtherImports(log[1].before, ImportStarts(log[1].before), log[1].name)
        /\ OtherKeys(ExportKeys(content), log[1].name)
               = OtherKeys(ExportKeys(log[1].before), log[1].name)

-----------------------------------------------------------------------------
(* Template materializer: one scaffolding run *)

\* the module names a run is started with
ModuleNames == {"user", "myPost", "my-post", "module", "myModule"}

\* the file names of the modelled template trees
TemplateNames == {"Module.js", "ModuleModule.js", "index.js"}

\* the file contents of the modelled template trees: tokens set apart, tokens
\* next to one another, a stray $, and no token at all
TemplateContents ==
    { "import $Module$ from './$Module$';",
      "$module$ $_module$ $-module$ $MoDuLe$ $MODULE$",
      "$MODULE$module$MODULE$$module$$MODULE$module$MODULE$",
      "cost: $$module$$",
      "// no placeholder" }

\* the most files a modelled template tree holds
MaxFiles == 2

\* the most renameFiles calls of a run
MaxRuns == 2

\* the template trees: at most MaxFiles file names, each with one of the contents
TemplateTrees ==
    UNION { { {[name |-> n, content |-> contents[n]] : n \in names} :
                contents \in [names -> TemplateContents] } :
            names \in {x \in SUBSET TemplateNames : Cardinality(x) <= MaxFiles} }

\* the orders in which shell.ls can list the files of a tree: fs.readdirSync
\* promises none
Listings(t) ==
    LET names == FileNamesOf(t)
        n == Cardinality(names)
    IN  {order \in [1..n -> names] : \A i, j \in 1..n : i # j => order[i] # order[j]}

IdlePatcher == exists = FALSE /\ content = "" /\ log = <<>>

InitTree ==
    /\ template \in TemplateTrees
    /\ moduleName \in ModuleNames
    /\ tree = {}
    /\ runs = 0
    /\ names1 = {}
    /\ IdlePatcher
    /\ IdleCall

CopyFiles ==
    /\ runs = 0
    /\ tree = {}
    /\ template # {}
    /\ tree' = copyFiles(tree, template)
    /\ UNCHANGED <<template, moduleName, runs, names1, patcherVars, callVars>>

RenameFiles ==
    /\ tree # {}
    /\ runs < MaxRuns
    /\ \E order \in Listings(tree) :
           /\ tree' = renameFiles(tree, order, moduleName)
           /\ names1' = IF runs = 0 THEN FileNamesOf(tree') ELSE names1
    /\ runs' = runs + 1
    /\ UNCHANGED <<template, moduleName, patcherVars, callVars>>

NextTree == CopyFiles \/ RenameFiles

SpecTree == InitTree /\ [][NextTree]_vars

-----------------------------------------------------------------------------
(* Claims about the template materializer *)

\* a file name that holds no Module once its first Module is replaced
SettlesInOnePass(name, Module) == ~Contains(ReplaceFirst(name, "Module", Module), "Module")

\* the characters the placeholder tokens are made of
TokenChars == UNION {{At(Tokens[k], i) : i \in 1..Len(Tokens[k])} : k \in 1..Len(Tokens)}

\* a text, read from position i on, in which every $ opens or closes one
\* placeholder token and between two tokens that follow each other there is a
\* character that no token holds (spaced: one was read since the last token)
RECURSIVE SetApartFrom(_, _, _)
SetApartFrom(text, i, spaced) ==
    IF i > Len(text) THEN TRUE
    ELSE IF At(text, i) = "$"
    THEN /\ spaced
         /\ \E k \in 1..Len(Tokens) :
                /\ OccursAt(text, i, Tokens[k])
                /\ SetApartFrom(text, i + Len(Tokens[k]), FALSE)
    ELSE SetApartFrom(text, i + 1, spaced \/ At(text, i) \notin TokenChars)

\* every $ of the text opens or closes one token, and tokens are set apart
TokensSetApart(text) == SetApartFrom(text, 1, TRUE)

HoldsToken(text) == \E k \in 1..Len(Tokens) : Contains(text, Tokens[k])

C9_NoTokenLeft == runs >= 1 => \A f \in tree : ~HoldsToken(f.content)

\* C9 amended: no token is left when the module name holds no $, every $ of the
\* contents opens or closes one token, and between two tokens that follow each
\* other there is a character that occurs in no token
C9_NoTokenLeftWhenSetApart ==
    (/\ runs >= 1
     /\ ~Contains(moduleName, "$")
     /\ \A f \in template : TokensSetApart(f.content))
        => \A f \in tree : ~HoldsToken(f.content)

\* C9 witness: the substitution pass ran over contents that held tokens set apart
C9_SubstitutionRan ==
    /\ runs = 1
    /\ ~Contains(moduleName, "$")
    /\ \A f \in template : TokensSetApart(f.content)
    /\ \E f \in template : HoldsToken(f.content)

-----------------------------------------------------------------------------
(* Path resolver and field-type mapper: one call *)

Locations == {"client", "server", "both", "client-react", "server-ts"}

PathModuleNames == {"", "Billing", "user", "myPost", "my-post", "Chat"}

PathCalls ==
    [fn : {"computeModulesPath"}, location : Locations, options : SUBSET {"old"},
     moduleName : PathModuleNames]

FieldCalls ==
    [fn : {"generateField"}, value : [type : Classes, optional : BOOLEAN], update : BOOLEAN]

InitCall ==
    /\ call \in PathCalls \cup FieldCalls
    /\ result = <<>>
    /\ IdlePatcher
    /\ IdleTree

ComputeModulesPath ==
    /\ result = <<>>
    /\ call.fn = "computeModulesPath"
    /\ result' = <<computeModulesPath(call.location, call.options, call.moduleName)>>
    /\ UNCHANGED <<call, patcherVars, treeVars>>

GenerateField ==
    /\ result = <<>>
    /\ call.fn = "generateField"
    /\ result' = <<generateField(call.value, call.update)>>
    /\ UNCHANGED <<call, patcherVars, treeVars>>

NextCall == ComputeModulesPath \/ GenerateField

SpecCall == InitCall /\ [][NextCall]_vars

-----------------------------------------------------------------------------
(* Claims about the path resolver and the field-type mapper *)

Returned(fn) == call.fn = fn /\ result # <<>>

ServerCall(options, name) ==
    /\ Returned("computeModulesPath")
    /\ call.location = "server" /\ call.options = options /\ call.moduleName = name

\* C6 as stated: for 'server', options.old with 'Billing' gives the legacy path,
\* no option with 'Billing' the per-module path, no option with '' the package-src path
C6_ServerPaths ==
    /\ ServerCall({"old"}, "Billing") => result[1] = BASE_PATH \o "/packages/server/src/modules/Billing"
    /\ ServerCall({}, "Billing") => result[1] = BASE_PATH \o "/modules/Billing/server"
    /\ ServerCall({}, "") => result[1] = BASE_PATH \o "/packages/server/src/"

\* C6 amended: as stated, but no option with '' gives the legacy path with an
\* empty module name, <base>/packages/server/src/modules/
C6_ServerPathsLegacyWhenEmpty ==
    /\ ServerCall({"old"}, "Billing") => result[1] = BASE_PATH \o "/packages/server/src/modules/Billing"
    /\ ServerCall({}, "Billing") => result[1] = BASE_PATH \o "/modules/Billing/server"
    /\ ServerCall({}, "") => result[1] = BASE_PATH \o "/packages/server/src/modules/"

\* C6 witness: computeModulesPath('server', {}, '') returned
C6_EmptyServerCallReturned == ServerCall({}, "")

\* the field's type is none of the recognized kinds, nor derived from one
Unrecognized(value) == \A k \in 1..Len(FieldKinds) : ~hasTypeOf(value, FieldKinds[k])

\* C7 as stated: a type of no recognized kind gives the empty string, whatever
\* optional and isUpdate are
C7_UnrecognizedGivesEmpty ==
    (Returned("generateField") /\ Unrecognized(call.value)) => result[1] = ""

\* C7 amended: a type of no recognized kind gives no type name: the result is "!"
\* when isUpdate and optional are both false, and the empty string otherwise
C7_UnrecognizedGivesMarkerOnly ==
    (Returned("generateField") /\ Unrecognized(call.value)) =>
        result[1] = (IF ~call.update /\ ~call.value.optional THEN "!" ELSE "")

\* C7 witness: generateField returned for a required field of no recognized kind
C7_UnrecognizedRequiredReturned ==
    /\ Returned("generateField") /\ Unrecognized(call.value)
    /\ ~call.update /\ ~call.value.optional

=============================================================================
